---- MODULE Spec2Model ----
(***************************************************************************)
(* Model of web-dyslexia/scripts/train_asl.py: the ASL letter training and *)
(* export pipeline (load_samples, build_xy, make_model,                    *)
(* export_browser_model, main).                                            *)
(*                                                                         *)
(* A JSON value is modelled by its shape.  A row of the dataset is         *)
(*   [dict, hasLabel, label, x]   with label the sequence of characters of *)
(* str(row["label"]) and x = [list, len, elem, val]: whether x is a JSON   *)
(* array, its length, the kind of its elements and a tag standing for the  *)
(* numbers it holds.                                                       *)
(*                                                                         *)
(* Library calls are modelled by their documented behaviour:               *)
(*   sklearn train_test_split(test_size=0.2, stratify=y, random_state=s),  *)
(*   keras EarlyStopping(patience=8, restore_best_weights=True),           *)
(*   sklearn classification_report(target_names=labels).                   *)
(* The pseudo-random generator is a fixed function of its seed; training   *)
(* itself (the validation accuracy of an epoch, the predictions) is left   *)
(* nondeterministic.                                                       *)
(***************************************************************************)
EXTENDS Integers, Sequences, FiniteSets, TLC

(***************************************************************************)
(* Bounds of the model.                                                    *)
(***************************************************************************)
MaxRows == 3        \* rows of an arbitrary dataset (SpecLoad)
MaxA == 6           \* rows labelled A in a generated dataset
MaxB == 3           \* rows labelled B in a generated dataset
MaxC == 2           \* rows labelled C in a generated dataset
MaxJ == 3           \* rows labelled J or Z in a generated dataset
MaxSeed == 1        \* --seed ranges over 0..MaxSeed
MaxEntropy == 1     \* OS entropy of a process ranges over 0..MaxEntropy
MaxEpochs == 10     \* --epochs ranges over 0..MaxEpochs (SpecTrain)
MaxAcc == 1         \* validation accuracy levels 0..MaxAcc
MaxRuns == 2        \* invocations of the script on the same inputs

(***************************************************************************)
(* Program constants.                                                      *)
(***************************************************************************)
VecLen == 63        \* len(x) != 63
Dense128 == 128     \* Dense(128, relu)
Dense64 == 64       \* Dense(64, relu)
Patience == 8       \* EarlyStopping(patience=8)
TestInv == 5        \* test_size=0.2, one sample in five
MinLabels == 2      \* len(labels) < 2
MinCount == 2       \* count < 2

\* DEFAULT_EXCLUDED with Z forgotten.
ExcludedOnlyJ == {"J"}

DEFAULT_EXCLUDED == {"J", "Z"}

(***************************************************************************)
(* Characters and str methods.                                             *)
(***************************************************************************)
Letters == {"A", "B", "C", "J", "Z", "S", "a", "b", "c", "j", "z", "sharp_s"}
Chars == Letters \cup {" ", "1"}

\* Code points, the order sorted() uses on one-character strings.
Ord(c) ==
    CASE c = " " -> 32 [] c = "1" -> 49
      [] c = "A" -> 65 [] c = "B" -> 66 [] c = "C" -> 67 [] c = "J" -> 74
      [] c = "S" -> 83 [] c = "Z" -> 90
      [] c = "a" -> 97 [] c = "b" -> 98 [] c = "c" -> 99 [] c = "j" -> 106
      [] c = "z" -> 122 [] c = "sharp_s" -> 223

\* str.upper() of one character; the sharp s becomes two characters.
UpperChar(c) ==
    CASE c = "a" -> <<"A">> [] c = "b" -> <<"B">> [] c = "c" -> <<"C">>
      [] c = "j" -> <<"J">> [] c = "z" -> <<"Z">>
      [] c = "sharp_s" -> <<"S", "S">>
      [] OTHER -> <<c>>

RECURSIVE Upper(_)
Upper(s) == IF s = <<>> THEN <<>> ELSE UpperChar(Head(s)) \o Upper(Tail(s))

IsSpace(c) == c = " "

RECURSIVE LStrip(_)
LStrip(s) == IF s # <<>> /\ IsSpace(Head(s)) THEN LStrip(Tail(s)) ELSE s

RECURSIVE RStrip(_)
RStrip(s) ==
    IF s # <<>> /\ IsSpace(s[Len(s)]) THEN RStrip(SubSeq(s, 1, Len(s) - 1)) ELSE s

Strip(s) == LStrip(RStrip(s))

\* str.isalpha(): non-empty and every character a letter.
IsAlpha(s) == s # <<>> /\ \A i \in 1..Len(s) : s[i] \in Letters

(***************************************************************************)
(* load_samples                                                            *)
(***************************************************************************)
\* label = str(row.get("label", "")).upper().strip()
NormLabel(row) == Strip(Upper(IF row.hasLabel THEN row.label ELSE <<>>))

\* The length test accepting every list of at most 63 elements.
XAcceptedAtMost(x) == x.list /\ x.len <= VecLen

\* isinstance(x, list) and len(x) == 63
XAccepted(x) == x.list /\ x.len = VecLen

\* float(v) for v in x: raises TypeError or ValueError on these elements.
FloatRaises(x) == x.elem \in {"badstr", "none"}

\* vec = [float(v) for v in x]
ToFloats(x) == [len |-> x.len, elem |-> "float", val |-> x.val]

\* The row passes every `continue` of the loop.
RowKept(row, include_jz) ==
    /\ row.dict
    /\ Len(NormLabel(row)) = 1
    /\ IsAlpha(NormLabel(row))
    /\ ~ ((~ include_jz) /\ NormLabel(row)[1] \in DEFAULT_EXCLUDED)
    /\ XAccepted(row.x)
    /\ ~ FloatRaises(row.x)

\* The position in the samples list taken for the row's index.
KeptIdx(k, kept) == kept

\* idx of enumerate(raw) at the k-th row, `kept` samples appended so far.
EnumIdx(k, kept) == k - 1

\* The samples list after the first k rows of the loop.
RECURSIVE SamplesUpTo(_, _, _)
SamplesUpTo(rows, k, include_jz) ==
    IF k = 0 THEN <<>>
    ELSE LET prev == SamplesUpTo(rows, k - 1, include_jz)
             row == rows[k]
         IN  IF RowKept(row, include_jz)
             THEN Append(prev, [label |-> NormLabel(row)[1],
                                x |-> ToFloats(row.x),
                                idx |-> EnumIdx(k, Len(prev))])
             ELSE prev

\* load_samples(path, include_jz): the raised error, or the samples.
load_samples(exists, json, include_jz) ==
    IF ~ exists THEN [err |-> "FileNotFoundError", samples |-> <<>>]
    ELSE IF json.kind = "malformed"
         THEN [err |-> "JSONDecodeError", samples |-> <<>>]
    ELSE IF json.kind # "array" THEN [err |-> "ValueError", samples |-> <<>>]
    ELSE LET s == SamplesUpTo(json.rows, Len(json.rows), include_jz)
         IN  IF s = <<>> THEN [err |-> "ValueError", samples |-> <<>>]
             ELSE [err |-> "none", samples |-> s]

(***************************************************************************)
(* build_xy                                                                *)
(***************************************************************************)
\* sorted(S) of a set of one-character strings.
RECURSIVE SortedSeq(_)
SortedSeq(S) ==
    IF S = {} THEN <<>>
    ELSE LET m == CHOOSE c \in S : \A d \in S : Ord(c) <= Ord(d)
         IN  <<m>> \o SortedSeq(S \ {m})

\* The distinct labels in order of first appearance, unsorted.
RECURSIVE FirstSeenLabels(_)
FirstSeenLabels(samples) ==
    IF samples = <<>> THEN <<>>
    ELSE LET prev == FirstSeenLabels(SubSeq(samples, 1, Len(samples) - 1))
             l == samples[Len(samples)].label
         IN  IF \E i \in 1..Len(prev) : prev[i] = l THEN prev ELSE Append(prev, l)

\* labels = sorted({s["label"] for s in samples})
LabelsOf(samples) == SortedSeq({samples[i].label : i \in 1..Len(samples)})

\* label_to_idx = {label: i for i, label in enumerate(labels)}
LabelToIdx(labels) ==
    [l \in {labels[i] : i \in 1..Len(labels)} |->
        (CHOOSE i \in 1..Len(labels) : labels[i] = l) - 1]

build_xy(samples) ==
    LET labels == LabelsOf(samples)
        l2i == LabelToIdx(labels)
    IN  [X |-> [k \in 1..Len(samples) |-> samples[k].x],
         y |-> [k \in 1..Len(samples) |-> l2i[samples[k].label]],
         labels |-> labels,
         label_to_idx |-> l2i]

(***************************************************************************)
(* sklearn.model_selection.train_test_split, as main calls it:             *)
(* test_size=0.2, stratify=y, random_state=seed.                           *)
(***************************************************************************)
CeilDiv(n, d) == (n + d - 1) \div d

\* The positions of s holding class c, ascending.
ClassIdx(y, c) == SelectSeq([i \in 1..Len(y) |-> i], LAMBDA i : y[i] = c)

RECURSIVE SumTo(_, _)
SumTo(f, k) == IF k = 0 THEN 0 ELSE f[k - 1] + SumTo(f, k - 1)

Rotate(s, r) ==
    IF s = <<>> THEN <<>>
    ELSE [i \in 1..Len(s) |-> s[((i - 1 + r) % Len(s)) + 1]]

\* numpy RandomState(seed): a fixed function of the seed.
RandomState(seed) == (seed * 3 + 1) % 4

\* sklearn _approximate_mode: each class gets the floor of its share of
\* n_draws; the draws left over go to the largest remainders, ties broken
\* by the generator.
ApproxMode(cc, k, n_draws, rng) ==
    LET total == SumTo(cc, k)
        fl == [c \in 0..(k - 1) |-> (cc[c] * n_draws) \div total]
        rem == [c \in 0..(k - 1) |-> (cc[c] * n_draws) % total]
        need == n_draws - SumTo(fl, k)
        key(c) == (c + rng) % k
        before(d, c) == \/ rem[d] > rem[c]
                        \/ rem[d] = rem[c] /\ key(d) < key(c)
        rank(c) == Cardinality({d \in 0..(k - 1) : before(d, c)})
    IN  [c \in 0..(k - 1) |-> fl[c] + (IF rank(c) < need THEN 1 ELSE 0)]

RECURSIVE ConcatClasses(_, _)
ConcatClasses(parts, k) ==
    IF k = 0 THEN <<>> ELSE ConcatClasses(parts, k - 1) \o parts[k - 1]

\* The raised error, or the positions (1-based, in y) of the training and of
\* the validation samples.
train_test_split(y, rng) ==
    LET n == Len(y)
        classes == {y[i] : i \in 1..n}
        k == Cardinality(classes)
        n_test == CeilDiv(n, TestInv)
        n_train == n - n_test
        cc == [c \in 0..(k - 1) |-> Len(ClassIdx(y, c))]
    IN  IF \/ n_train = 0
           \/ \E c \in 0..(k - 1) : cc[c] < 2
           \/ n_train < k
           \/ n_test < k
        THEN [err |-> "ValueError", train |-> <<>>, val |-> <<>>]
        ELSE LET n_i == ApproxMode(cc, k, n_train, rng)
                 perm == [c \in 0..(k - 1) |->
                            Rotate(ClassIdx(y, c), (rng + c) % cc[c])]
                 tr == [c \in 0..(k - 1) |-> SubSeq(perm[c], 1, n_i[c])]
                 te == [c \in 0..(k - 1) |-> SubSeq(perm[c], n_i[c] + 1, cc[c])]
             IN  [err |-> "none",
                  train |-> Rotate(ConcatClasses(tr, k), rng),
                  val |-> Rotate(ConcatClasses(te, k), rng + 1)]

(***************************************************************************)
(* make_model                                                              *)
(***************************************************************************)
\* The kernel stored as (units, input_dim).
KernelTransposed(in_dim, units) == <<units, in_dim>>

\* A Dense layer's kernel has shape (input_dim, units).
KernelShape(in_dim, units) == <<in_dim, units>>

InputLayer(name, dim) ==
    [kind |-> "Input", name |-> name, units |-> dim, activation |-> "none",
     kernel |-> <<>>]

DenseLayer(name, units, activation) ==
    [kind |-> "Dense", name |-> name, units |-> units,
     activation |-> activation, kernel |-> <<>>]

\* Sequential builds each Dense layer on the output of the layer before it.
RECURSIVE BuildLayers(_, _)
BuildLayers(specs, k) ==
    IF k = 0 THEN <<>>
    ELSE LET prev == BuildLayers(specs, k - 1)
             l == specs[k]
         IN  IF l.kind = "Dense"
             THEN Append(prev,
                    [l EXCEPT !.kernel = KernelShape(prev[k - 1].units, l.units)])
             ELSE Append(prev, l)

make_model(num_classes) ==
    BuildLayers(<<InputLayer("input_63", VecLen),
                  DenseLayer("dense_128", Dense128, "relu"),
                  DenseLayer("dense_64", Dense64, "relu"),
                  DenseLayer("dense_logits", num_classes, "softmax")>>, 4)

(***************************************************************************)
(* export_browser_model                                                    *)
(***************************************************************************)
\* The activation's own name written out.
ActivationName(name) == name

\* "relu" if activation == "relu" else "linear"
ActivationTag(name) == IF name = "relu" THEN "relu" ELSE "linear"

ExportLayer(layer, w) ==
    [name |-> layer.name,
     input_size |-> layer.kernel[1],
     output_size |-> layer.kernel[2],
     activation |-> ActivationTag(layer.activation),
     weights |-> w]

export_browser_model(layers, labels, w) ==
    LET dense_layers == SelectSeq(layers, LAMBDA l : l.kind = "Dense")
    IN  [model_type |-> "mlp",
         input_size |-> VecLen,
         labels |-> labels,
         layers |-> [i \in 1..Len(dense_layers) |-> ExportLayer(dense_layers[i], w)]]

(***************************************************************************)
(* State of one invocation of the script, and of the files around it.      *)
(***************************************************************************)
VARIABLES
    exists,         \* the dataset path exists
    json,           \* what json.load reads from it: [kind, rows]
    args,           \* parse_args(): [include_jz, epochs, seed]
    restore_on_end, \* the installed keras restores the best weights in
                    \* on_train_end (keras 3) and not only on an early stop
    os_entropy,     \* what an unseeded generator of this process draws
    global_rng,     \* state of the global generators (random, numpy, tf)
    pc,             \* position in main
    err,            \* the exception main was terminated by, or "none"
    samples,        \* load_samples' result
    xy,             \* build_xy's result
    split,          \* positions of the training and validation samples
    model,          \* the layers of the Sequential model
    weights,        \* the model's current weights
    es,             \* the EarlyStopping callback
    history,        \* val_accuracy of the epochs run
    evaluated,      \* the weights model.evaluate and model.predict saw
    out_file,       \* the output file: <<>> or <<payload>>
    steps_run,      \* the steps of main this invocation has entered
    run,            \* number of this invocation
    prev            \* what the earlier invocations did

vars == <<exists, json, args, restore_on_end, os_entropy, global_rng, pc, err,
          samples, xy, split, model, weights, es, history, evaluated,
          out_file, steps_run, run, prev>>

inputs == <<exists, json, args, restore_on_end>>

(***************************************************************************)
(* Inputs.                                                                 *)
(***************************************************************************)
OkX(v) == [list |-> TRUE, len |-> VecLen, elem |-> "float", val |-> v]

Row(label, x) == [dict |-> TRUE, hasLabel |-> TRUE, label |-> label, x |-> x]

ARow(i) == Row(IF i % 2 = 1 THEN <<"A">> ELSE <<" ", "a">>, OkX(i % 2))

BRow(i) == Row(IF i % 2 = 1 THEN <<"b", " ">> ELSE <<"B">>, OkX(i % 2))

CRow(i) ==
    Row(<<"C">>, [OkX(i % 2) EXCEPT !.elem = IF i % 2 = 1 THEN "int" ELSE "numstr"])

JRow(i) ==
    Row(CASE i % 4 = 1 -> <<" ", "j", " ">>
          [] i % 4 = 2 -> <<"J">>
          [] i % 4 = 3 -> <<"z">>
          [] OTHER -> <<"Z", " ">>, OkX(i % 2))

\* A dataset with the given numbers of rows of each kind.
GenDataset(a, b, c, j) ==
    [i \in 1..j |-> JRow(i)] \o [i \in 1..a |-> ARow(i)]
    \o [i \in 1..b |-> BRow(i)] \o [i \in 1..c |-> CRow(i)]

GenDatasets ==
    {GenDataset(a, b, c, j) :
        a \in 0..MaxA, b \in 0..MaxB, c \in {0, MaxC}, j \in {0, MaxJ}}

\* The rows an arbitrary dataset is made of.
RowKinds ==
    { [dict |-> FALSE, hasLabel |-> FALSE, label |-> <<>>, x |-> OkX(0)],
      Row(<<"A">>, OkX(0)),
      Row(<<" ", "a">>, OkX(1)),
      Row(<<"b", " ">>, [OkX(0) EXCEPT !.elem = "numstr"]),
      Row(<<"J">>, OkX(0)),
      Row(<<" ", "j", " ">>, OkX(1)),
      Row(<<"z">>, OkX(0)),
      Row(<<"A", "B">>, OkX(0)),
      Row(<<"1">>, OkX(0)),
      Row(<<"sharp_s">>, OkX(0)),
      [dict |-> TRUE, hasLabel |-> FALSE, label |-> <<>>, x |-> OkX(0)],
      Row(<<"A">>, [OkX(1) EXCEPT !.len = VecLen - 1]),
      Row(<<"b">>, [OkX(0) EXCEPT !.len = VecLen + 1]),
      Row(<<"A">>, [OkX(0) EXCEPT !.list = FALSE]),
      Row(<<"B">>, [OkX(0) EXCEPT !.elem = "badstr"]),
      Row(<<"B">>, [OkX(0) EXCEPT !.elem = "none"]) }

RECURSIVE SeqsUpTo(_, _)
SeqsUpTo(S, n) ==
    IF n = 0 THEN {<<>>}
    ELSE LET shorter == SeqsUpTo(S, n - 1)
         IN  shorter \cup {Append(s, e) : s \in {t \in shorter : Len(t) = n - 1}, e \in S}

NotAnArray == {[kind |-> "object", rows |-> <<>>], [kind |-> "malformed", rows |-> <<>>]}

Array(rows) == [kind |-> "array", rows |-> rows]

(***************************************************************************)
(* The state of a process when main is entered.                            *)
(***************************************************************************)
NoXY == build_xy(<<>>)

NoSplit == [train |-> <<>>, val |-> <<>>]

InitialWeights == [epoch |-> 0, acc |-> -1]

NoCallback ==
    [wait |-> 0, best |-> -1, best_weights |-> <<>>, stop_training |-> FALSE,
     stopped_epoch |-> 0]

ProcessStart ==
    /\ pc = "start"
    /\ err = "none"
    /\ samples = <<>>
    /\ xy = NoXY
    /\ split = NoSplit
    /\ model = <<>>
    /\ weights = InitialWeights
    /\ es = NoCallback
    /\ history = <<>>
    /\ evaluated = <<>>
    /\ steps_run = {}

InitCommon ==
    /\ global_rng = os_entropy
    /\ out_file = <<>>
    /\ run = 1
    /\ prev = <<>>
    /\ ProcessStart

\* The whole pipeline on generated datasets, at most one epoch.
Init ==
    /\ \/ exists = TRUE /\ json \in {Array(d) : d \in GenDatasets} \cup NotAnArray
       \/ exists = FALSE /\ json = Array(<<>>)
    /\ args \in [include_jz : BOOLEAN, epochs : {0, 1}, seed : 0..MaxSeed]
    /\ os_entropy \in 0..MaxEntropy
    /\ restore_on_end \in BOOLEAN
    /\ InitCommon

\* load_samples and build_xy on arbitrary datasets.
InitLoad ==
    /\ exists = TRUE
    /\ json \in {Array(d) : d \in SeqsUpTo(RowKinds, MaxRows)}
    /\ args \in [include_jz : BOOLEAN, epochs : {0}, seed : {0}]
    /\ os_entropy = 0
    /\ restore_on_end = TRUE
    /\ InitCommon

\* Training on one dataset, every number of epochs.
InitTrain ==
    /\ exists = TRUE
    /\ json = Array(GenDataset(MaxA, MaxB, 0, 0))
    /\ args \in [include_jz : {FALSE}, epochs : 0..MaxEpochs, seed : 0..MaxSeed]
    /\ os_entropy = 0
    /\ restore_on_end \in BOOLEAN
    /\ InitCommon

(***************************************************************************)
(* keras.callbacks.EarlyStopping(monitor="val_accuracy", patience=8,       *)
(* restore_best_weights=True)                                              *)
(***************************************************************************)
\* on_epoch_end(epoch, logs): epoch is 0-based, current = logs[monitor], w the
\* weights the epoch produced.
OnEpochEnd(cb, epoch, current, w) ==
    LET cb1 == IF cb.best_weights = <<>> THEN [cb EXCEPT !.best_weights = <<w>>]
               ELSE cb
        cb2 == [cb1 EXCEPT !.wait = @ + 1]
    IN  IF current > cb2.best
        THEN [cb2 EXCEPT !.best = current, !.best_weights = <<w>>, !.wait = 0]
        ELSE IF cb2.wait >= Patience /\ epoch > 0
             THEN [cb2 EXCEPT !.stopped_epoch = epoch, !.stop_training = TRUE]
             ELSE cb2

(***************************************************************************)
(* main, one action per step.                                              *)
(***************************************************************************)
Raise(e) == pc' = "error" /\ err' = e

Enter(step) == steps_run' = steps_run \cup {step}

\* args = parse_args(); random.seed, np.random.seed, tf.random.set_seed
Seed ==
    /\ pc = "start"
    /\ global_rng' = args.seed
    /\ pc' = "load"
    /\ Enter("seed")
    /\ UNCHANGED <<inputs, os_entropy, err, samples, xy, split, model, weights,
                   es, history, evaluated, out_file, run, prev>>

\* samples = load_samples(dataset_path, include_jz=args.include_jz)
Load ==
    /\ pc = "load"
    /\ Enter("load")
    /\ LET r == load_samples(exists, json, args.include_jz)
       IN  IF r.err # "none"
           THEN Raise(r.err) /\ UNCHANGED samples
           ELSE samples' = r.samples /\ pc' = "build" /\ UNCHANGED err
    /\ UNCHANGED <<inputs, os_entropy, global_rng, xy, split, model, weights,
                   es, history, evaluated, out_file, run, prev>>

\* X, y, labels, _ = build_xy(samples)
BuildXY ==
    /\ pc = "build"
    /\ Enter("build")
    /\ xy' = build_xy(samples)
    /\ pc' = "check"
    /\ UNCHANGED <<inputs, os_entropy, global_rng, err, samples, split, model,
                   weights, es, history, evaluated, out_file, run, prev>>

\* counts = {label: int((y == i).sum()) ...}
CountOf(y, i) == Cardinality({k \in 1..Len(y) : y[k] = i})

\* The count test letting a label with a single sample through.
CountBelowOne(count) == count < 1

\* if count < 2
CountTooSmall(count) == count < MinCount

\* The two data checks of main before the split.
CheckLabels ==
    /\ pc = "check"
    /\ Enter("check")
    /\ IF Len(xy.labels) < MinLabels
       THEN Raise("ValueError")
       ELSE IF \E i \in 1..Len(xy.labels) : CountTooSmall(CountOf(xy.y, i - 1))
            THEN Raise("ValueError")
            ELSE pc' = "split" /\ UNCHANGED err
    /\ UNCHANGED <<inputs, os_entropy, global_rng, samples, xy, split, model,
                   weights, es, history, evaluated, out_file, run, prev>>

\* A generator fed by the OS instead of the seed.
UnseededRng == os_entropy

\* random_state=args.seed
SplitRng == RandomState(args.seed)

\* train_test_split(X, y, test_size=0.2, random_state=args.seed, stratify=y)
Split ==
    /\ pc = "split"
    /\ Enter("split")
    /\ LET r == train_test_split(xy.y, SplitRng)
       IN  IF r.err # "none"
           THEN Raise(r.err) /\ UNCHANGED split
           ELSE /\ split' = [train |-> r.train, val |-> r.val]
                /\ pc' = "model"
                /\ UNCHANGED err
    /\ UNCHANGED <<inputs, os_entropy, global_rng, samples, xy, model, weights,
                   es, history, evaluated, out_file, run, prev>>

\* num_classes=len(labels)
NumClasses == Len(xy.labels)

\* model = make_model(...); the callbacks list; fit's on_train_begin
MakeModel ==
    /\ pc = "model"
    /\ Enter("model")
    /\ model' = make_model(NumClasses)
    /\ weights' = InitialWeights
    /\ es' = NoCallback
    /\ history' = <<>>
    /\ pc' = "fit"
    /\ UNCHANGED <<inputs, os_entropy, global_rng, err, samples, xy, split,
                   evaluated, out_file, run, prev>>

\* One epoch of model.fit: training, validation, the callback.  A keras that
\* does not restore in on_train_end restores when the callback stops training.
FitEpoch ==
    /\ pc = "fit"
    /\ Len(history) < args.epochs
    /\ ~ es.stop_training
    /\ Enter("fit")
    /\ \E acc \in 0..MaxAcc :
         LET epoch == Len(history)
             w == [epoch |-> epoch + 1, acc |-> acc]
             cb == OnEpochEnd(es, epoch, acc, w)
         IN  /\ history' = Append(history, acc)
             /\ es' = cb
             /\ weights' = IF cb.stop_training /\ ~ restore_on_end
                           THEN cb.best_weights[1] ELSE w
    /\ UNCHANGED <<inputs, os_entropy, global_rng, pc, err, samples, xy, split,
                   model, evaluated, out_file, run, prev>>

\* model.fit returns: epochs exhausted or training stopped; on_train_end.
FitEnd ==
    /\ pc = "fit"
    /\ Len(history) >= args.epochs \/ es.stop_training
    /\ Enter("fit")
    /\ weights' = IF restore_on_end /\ es.best_weights # <<>>
                  THEN es.best_weights[1] ELSE weights
    /\ pc' = "evaluate"
    /\ UNCHANGED <<inputs, os_entropy, global_rng, err, samples, xy, split,
                   model, es, history, evaluated, out_file, run, prev>>

\* model.evaluate, model.predict, classification_report, confusion_matrix.
\* classification_report raises ValueError when y_val and y_pred together hold
\* fewer classes than target_names has names.
Evaluate ==
    /\ pc = "evaluate"
    /\ Enter("evaluate")
    /\ evaluated' = <<weights>>
    /\ \E pred \in SUBSET (0..(Len(xy.labels) - 1)) :
         /\ pred # {}
         /\ Cardinality(pred) <= Len(split.val)
         /\ LET y_val == {xy.y[split.val[i]] : i \in 1..Len(split.val)}
            IN  IF Cardinality(y_val \cup pred) # Len(xy.labels)
                THEN Raise("ValueError")
                ELSE pc' = "export" /\ UNCHANGED err
    /\ UNCHANGED <<inputs, os_entropy, global_rng, samples, xy, split, model,
                   weights, es, history, out_file, run, prev>>

\* export_browser_model(model, labels, output_path)
Export ==
    /\ pc = "export"
    /\ Enter("export")
    /\ out_file' = <<export_browser_model(model, xy.labels, weights)>>
    /\ pc' = "done"
    /\ UNCHANGED <<inputs, os_entropy, global_rng, err, samples, xy, split,
                   model, weights, es, history, evaluated, run, prev>>

\* The script is invoked again with the same arguments on the same dataset.
Rerun ==
    /\ pc \in {"done", "error"}
    /\ run < MaxRuns
    /\ run' = run + 1
    /\ prev' = Append(prev, [split |-> split, samples |-> samples,
                              did_split |-> "split" \in steps_run])
    /\ os_entropy' \in 0..MaxEntropy
    /\ global_rng' = os_entropy'
    /\ pc' = "start"
    /\ err' = "none"
    /\ samples' = <<>>
    /\ xy' = NoXY
    /\ split' = NoSplit
    /\ model' = <<>>
    /\ weights' = InitialWeights
    /\ es' = NoCallback
    /\ history' = <<>>
    /\ evaluated' = <<>>
    /\ steps_run' = {}
    /\ UNCHANGED <<inputs, out_file>>

Next ==
    \/ Seed \/ Load \/ BuildXY \/ CheckLabels \/ Split \/ MakeModel
    \/ FitEpoch \/ FitEnd \/ Evaluate \/ Export \/ Rerun

NextLoad == Seed \/ Load \/ BuildXY \/ CheckLabels

Spec == Init /\ [][Next]_vars

SpecLoad == InitLoad /\ [][NextLoad]_vars

SpecTrain == InitTrain /\ [][Next]_vars

(***************************************************************************)
(* Properties.                                                             *)
(***************************************************************************)
Range(s) == {s[i] : i \in 1..Len(s)}

TrainingSteps == {"split", "model", "fit", "evaluate", "export"}

\* What load_samples keeps of the dataset, computed from the inputs.
Retained ==
    IF exists /\ json.kind = "array"
    THEN SamplesUpTo(json.rows, Len(json.rows), args.include_jz)
    ELSE <<>>

LabelSet(ss) == {ss[i].label : i \in 1..Len(ss)}

CountIn(ss, l) == Cardinality({i \in 1..Len(ss) : ss[i].label = l})

\* At least 2 distinct labels, at least 2 samples for each.
EligibleSamples(ss) ==
    LET ls == LabelSet(ss)
    IN  Cardinality(ls) >= 2 /\ \A l \in ls : CountIn(ss, l) >= 2

\* C1 as stated: for a dataset that keeps at least 2 distinct labels with at
\* least 2 samples each, main runs to completion and writes the output file,
\* whose labels list is as long as the number of distinct retained labels and
\* whose last layer has that number as output_size.
C1_Original ==
    pc \in {"done", "error"} =>
        LET kept == Retained
            n == Cardinality(LabelSet(kept))
        IN  EligibleSamples(kept) =>
              /\ pc = "done"
              /\ "export" \in steps_run
              /\ out_file # <<>>
              /\ Len(out_file[1].labels) = n
              /\ out_file[1].layers[Len(out_file[1].layers)].output_size = n

\* C1, restricted to the runs that complete: a completed run on such a dataset
\* has written the output file with these two numbers.
C1_WhenCompleted ==
    pc = "done" =>
        LET kept == Retained
            n == Cardinality(LabelSet(kept))
        IN  EligibleSamples(kept) =>
              /\ "export" \in steps_run
              /\ out_file # <<>>
              /\ Len(out_file[1].labels) = n
              /\ out_file[1].layers[Len(out_file[1].layers)].output_size = n

\* A run on such a dataset, with 3 labels, that completes.
C1_Witness ==
    /\ pc = "done"
    /\ out_file # <<>>
    /\ LET kept == Retained
       IN  EligibleSamples(kept) /\ Cardinality(LabelSet(kept)) = 3

\* C2: without --include-jz neither J nor Z is the label of a sample or in
\* the exported labels, whatever case or padding the row's label has; with
\* the flag every otherwise valid row labelled J or Z is retained.
C2_ExcludedLettersAbsent ==
    /\ (~ args.include_jz) =>
          /\ \A i \in 1..Len(samples) : samples[i].label \notin {"J", "Z"}
          /\ (out_file # <<>> =>
               \A i \in 1..Len(out_file[1].labels) :
                   out_file[1].labels[i] \notin {"J", "Z"})
    /\ (args.include_jz /\ exists /\ json.kind = "array"
          /\ "load" \in steps_run) =>
          \A k \in 1..Len(json.rows) :
              (RowKept(json.rows[k], TRUE) /\ NormLabel(json.rows[k])[1] \in {"J", "Z"})
                  => \E i \in 1..Len(samples) :
                        /\ samples[i].idx = k - 1
                        /\ samples[i].label = NormLabel(json.rows[k])[1]

C2_Witness ==
    /\ ~ args.include_jz
    /\ out_file # <<>>
    /\ pc = "done"
    /\ \E k \in 1..Len(json.rows) : json.rows[k].label = <<" ", "j", " ">>
    /\ \E k \in 1..Len(json.rows) : json.rows[k].label = <<"z">>

\* A row whose x is a list of a length other than 63.
WrongLen(row) == row.dict /\ row.x.list /\ row.x.len # 63

WithoutWrongLen(rows) == SelectSeq(rows, LAMBDA r : ~ WrongLen(r))

\* 0-based indices of the rows WithoutWrongLen keeps.
KeptPositions(rows) ==
    SelectSeq([i \in 1..Len(rows) |-> i - 1], LAMBDA i : ~ WrongLen(rows[i + 1]))

LabelAndX(ss) == [i \in 1..Len(ss) |-> [label |-> ss[i].label, x |-> ss[i].x]]

LoadOfFiltered ==
    load_samples(exists, Array(WithoutWrongLen(json.rows)), args.include_jz)

LoadReturned == "build" \in steps_run \/ pc = "build"

LoadRaised == pc = "error" /\ "load" \in steps_run /\ "build" \notin steps_run

\* C3 as stated: load_samples returns exactly the samples, idx included, that
\* it returns for the array with the wrong-length rows removed.
C3_Original ==
    /\ LoadReturned =>
          (LoadOfFiltered.err = "none" /\ samples = LoadOfFiltered.samples)
    /\ LoadRaised => (LoadOfFiltered.err = err)

\* C3 amended: rows whose x has a length other than 63 are dropped without an
\* error of their own; load_samples returns the labels and vectors, in the
\* same order, that it returns for the array with those rows removed, each
\* sample carrying the index its row has in the array as given.
C3_DroppedUpToIdx ==
    /\ LoadReturned =>
          /\ LoadOfFiltered.err = "none"
          /\ LabelAndX(samples) = LabelAndX(LoadOfFiltered.samples)
          /\ \A i \in 1..Len(samples) :
                samples[i].idx
                  = KeptPositions(json.rows)[LoadOfFiltered.samples[i].idx + 1]
    /\ LoadRaised => (LoadOfFiltered.err = err)

C3_Witness ==
    /\ LoadReturned
    /\ \E k \in 1..Len(json.rows) :
          /\ WrongLen(json.rows[k])
          /\ \E i \in 1..Len(samples) : samples[i].idx > k - 1

\* Fewer than two distinct labels remain, or a retained label has fewer than
\* two samples.
Insufficient ==
    /\ exists
    /\ json.kind = "array"
    /\ LET kept == Retained
           ls == LabelSet(kept)
       IN  Cardinality(ls) < 2 \/ \E l \in ls : CountIn(kept, l) < 2

NotJsonArray == exists /\ json.kind = "object"

NoTraining ==
    /\ steps_run \cap TrainingSteps = {}
    /\ pc \in {"start", "load", "build", "check", "error"}
    /\ out_file = <<>>

\* C4 as stated: insufficient labels or counts, a missing dataset file and a
\* dataset that is not an array all end main with a ValueError before the
\* split, the training and the export.
C4_Original ==
    (~ (NoTraining /\ (pc = "error" => err = "ValueError")))
        => ~ (Insufficient \/ NotJsonArray \/ ~ exists)

\* C4 amended: insufficient labels or counts and a dataset that is not an
\* array end main with a ValueError, a missing dataset file ends it with a
\* FileNotFoundError; in each case before the split, the training and the
\* export, so that no output file is written.
C4_DataErrorsBeforeSplit ==
    /\ (~ (NoTraining /\ (pc = "error" => err = "ValueError")))
          => ~ (Insufficient \/ NotJsonArray)
    /\ ~ exists =>
          /\ NoTraining
          /\ (pc = "error" => err = "FileNotFoundError")

C4_Witness ==
    /\ pc = "error"
    /\ err = "ValueError"
    /\ "check" \in steps_run
    /\ Len(xy.labels) >= 2
    /\ Insufficient

\* C5: an exported file has exactly 3 layers whose sizes chain as
\* 63 -> 128 -> 64 -> number of labels, the first input size being the
\* file's input_size.
C5_LayerSizesChain ==
    out_file # <<>> =>
        LET f == out_file[1]
        IN  /\ Len(f.layers) = 3
            /\ f.input_size = 63
            /\ f.layers[1].input_size = f.input_size
            /\ f.layers[1].output_size = 128
            /\ f.layers[2].input_size = f.layers[1].output_size
            /\ f.layers[2].output_size = 64
            /\ f.layers[3].input_size = f.layers[2].output_size
            /\ f.layers[3].output_size = Len(f.labels)

C5_Witness ==
    /\ out_file # <<>>
    /\ Len(out_file[1].labels) = 3
    /\ Len(out_file[1].layers) = 3

SamplesAt(ss, positions) == {ss[positions[i]] : i \in 1..Len(positions)}

\* The two sides are disjoint and together hold every sample once.
IsPartition(sp, n) ==
    /\ Range(sp.train) \cap Range(sp.val) = {}
    /\ Range(sp.train) \cup Range(sp.val) = 1..n
    /\ Len(sp.train) + Len(sp.val) = n

C7_ActivationTags ==
    /\ out_file # <<>> =>
          LET ls == out_file[1].layers
          IN  /\ \A i \in 1..Len(ls) : ls[i].activation \in {"relu", "linear"}
              /\ ls[1].activation = "relu"
              /\ ls[2].activation = "relu"
              /\ ls[Len(ls)].activation = "linear"
    /\ pc = "done" =>
          LET ls == out_file[1].layers
              dense == SelectSeq(model, LAMBDA l : l.kind = "Dense")
          IN  /\ Len(ls) = Len(dense)
              /\ \A i \in 1..Len(ls) :
                    ls[i].activation
                      = IF dense[i].activation = "relu" THEN "relu" ELSE "linear"

C7_Witness ==
    /\ pc = "done"
    /\ \E i \in 1..Len(model) : model[i].activation = "softmax"
    /\ out_file[1].layers[3].activation = "linear"

\* C8: after build_xy, labels is the strictly ascending list of the distinct
\* sample labels, label_to_idx maps it one-to-one onto 0..len(labels)-1 with
\* label_to_idx[labels[i]] = i, labels[y[k]] is the label of sample k, and X
\* and y keep the samples' order.
C8_LabelIndexBijective ==
    ("build" \in steps_run) =>
        LET labels == xy.labels
            l2i == xy.label_to_idx
        IN  /\ \A i \in 1..(Len(labels) - 1) : Ord(labels[i]) < Ord(labels[i + 1])
            /\ Range(labels) = {samples[k].label : k \in 1..Len(samples)}
            /\ DOMAIN l2i = Range(labels)
            /\ \A i \in 1..Len(labels) : l2i[labels[i]] = i - 1
            /\ {l2i[l] : l \in DOMAIN l2i} = 0..(Len(labels) - 1)
            /\ Len(xy.X) = Len(samples)
            /\ Len(xy.y) = Len(samples)
            /\ \A k \in 1..Len(samples) :
                  /\ labels[xy.y[k] + 1] = samples[k].label
                  /\ xy.X[k] = samples[k].x

C8_Witness ==
    /\ "build" \in steps_run
    /\ Len(xy.labels) >= 2
    /\ Len(samples) = 3
    /\ samples[1].label # xy.labels[1]

\* C9: every sample load_samples returns has a vector of length 63 and a label
\* of one alphabetic character, and carries the index of its row in the
\* input array; the list keeps the input order and is never empty, a dataset
\* without a valid row raising an error instead.
C9_SamplesWellFormed ==
    /\ \A i \in 1..Len(samples) :
          /\ samples[i].x.len = 63
          /\ samples[i].label \in Letters
          /\ samples[i].idx \in 0..(Len(json.rows) - 1)
          /\ NormLabel(json.rows[samples[i].idx + 1]) = <<samples[i].label>>
          /\ json.rows[samples[i].idx + 1].x.len = 63
          /\ json.rows[samples[i].idx + 1].x.val = samples[i].x.val
    /\ \A i \in 1..(Len(samples) - 1) : samples[i].idx < samples[i + 1].idx
    /\ LoadReturned => samples # <<>>
    /\ ("load" \in steps_run /\ samples = <<>>) =>
          (pc = "error" /\ err = "ValueError")

C9_Witness ==
    /\ LoadReturned
    /\ Len(samples) = 2
    /\ samples[1].idx = 1
    /\ samples[2].idx = 2

RECURSIVE MaxOf(_)
MaxOf(h) ==
    IF Len(h) = 1 THEN h[1]
    ELSE LET m == MaxOf(Tail(h)) IN IF h[1] > m THEN h[1] ELSE m

FitReturned == "evaluate" \in steps_run \/ pc = "evaluate"

\* C10 as stated: at most `epochs` epochs are run, training halts once 8
\* epochs in a row have not improved the validation accuracy, and however
\* training ends the weights evaluated and exported are those of an epoch
\* with the best validation accuracy seen; the export follows training and
\* evaluation.
C10_Original ==
    /\ Len(history) <= args.epochs
    /\ es.wait <= 8
    /\ (es.wait = 8 /\ pc = "fit") => es.stop_training
    /\ (FitReturned /\ history # <<>>) =>
          /\ weights.epoch \in 1..Len(history)
          /\ history[weights.epoch] = MaxOf(history)
          /\ weights.acc = MaxOf(history)
    /\ "evaluate" \in steps_run => evaluated = <<weights>>
    /\ pc = "done" =>
          \A i \in 1..Len(out_file[1].layers) :
              out_file[1].layers[i].weights = weights
    /\ "export" \in steps_run => {"fit", "evaluate"} \subseteq steps_run

====
